---- MODULE Spec2Model ----
(***************************************************************************)
(* A model of the command interpreter of src/shell.c: the command loop of  *)
(* main, the history ring, the tokenizer, the builtins, and the launch of  *)
(* external commands (fork, redirection, execvp, waitpid).                 *)
(*                                                                         *)
(* A C string is a sequence of one-character strings; the NULL pointer is  *)
(* the empty sequence (strtok never returns an empty token, so no token    *)
(* is confused with it).  An args array is the sequence of its slots up to *)
(* and including the terminating NULL written by parse_input.              *)
(*                                                                         *)
(* The results of the operating system's primitives (malloc in read_input, *)
(* chdir, fork, open, execvp, the termination of a program) are chosen     *)
(* nondeterministically.  strdup and the malloc of parse_input, whose      *)
(* results the code never tests, are taken to succeed.  The SIGINT handler *)
(* only writes a prompt and, installed with signal(), lets an interrupted  *)
(* waitpid restart; it is not modelled.                                    *)
(***************************************************************************)
EXTENDS Integers, Sequences, FiniteSets, TLC

\* ------------------------------------------------------------------------
\* Program constants
\* ------------------------------------------------------------------------
BUFFER_SIZE == 1024
HISTORY_SIZE == 10

\* The number of slots parse_input allocates for the args array.
TOKEN_BUFSIZE == 64

NULL == <<>>

\* ------------------------------------------------------------------------
\* Bounds of the model
\* ------------------------------------------------------------------------
\* Command lines read under Spec, SpecHistory and SpecScript.
MaxCmds == 2
MaxHistCmds == 12
MaxScriptCmds == 4
\* Command lines read under SpecEof, those read at end of file included.
MaxEofCmds == 3
\* Under SpecParse: the length of the lines enumerated character by
\* character, and by how many tokens the longest line exceeds the last
\* one whose args array fits TOKEN_BUFSIZE slots.
MaxLineLen == 4
MaxExtraTokens == 2

\* ------------------------------------------------------------------------
\* Words and command lines
\* ------------------------------------------------------------------------
SP == " "
NL == "\n"
\* The terminating character of a C string, where a buffer holds one inside.
NUL == "\\0"

EXIT == <<"e", "x", "i", "t">>
CD == <<"c", "d">>
HISTORY == <<"h", "i", "s", "t", "o", "r", "y">>
GT == <<">">>
GTGT == <<">", ">">>
LT == <<"<">>
AMP == <<"&">>

A == <<"a">>
B == <<"b">>
C == <<"c">>
ECHO == <<"e", "c", "h", "o">>
HI == <<"h", "i">>
SORT == <<"s", "o", "r", "t">>
DASHR == <<"-", "r">>
OUTTXT == <<"o", "u", "t", ".", "t", "x", "t">>
INTXT == <<"i", "n", ".", "t", "x", "t">>
LOG == <<"l", "o", "g">>
DIR == <<"d", "i", "r">>
SUB == <<"s", "u", "b">>
LS == <<"l", "s">>
DASHL == <<"-", "l">>
HOME == <<"/", "h", "o", "m", "e">>

RECURSIVE Join(_)
\* The words of ws separated by single spaces.
Join(ws) ==
    IF ws = <<>> THEN <<>>
    ELSE IF Len(ws) = 1 THEN ws[1]
    ELSE ws[1] \o <<SP>> \o Join(Tail(ws))

\* What the terminal delivers for a typed line: the line and its newline.
Typed(l) == l \o <<NL>>

\* The command lines typed under Spec.
Lines ==
    { <<>>,
      <<SP>>,
      Join(<<EXIT>>),
      Join(<<EXIT, GT, LOG, AMP>>),
      Join(<<CD>>),
      Join(<<CD, DIR>>),
      Join(<<CD, DIR, SUB>>),
      Join(<<HISTORY>>),
      Join(<<A>>),
      Join(<<A, AMP>>),
      Join(<<ECHO, HI, GT, OUTTXT>>),
      Join(<<SORT, LT, INTXT, DASHR>>),
      Join(<<A, GTGT, LOG>>),
      Join(<<A, GT, OUTTXT, GT, LOG>>),
      Join(<<A, GT, AMP>>),
      Join(<<A, GT, LOG, AMP>>),
      Join(<<GT, LOG>>),
      Join(<<AMP>>),
      <<SP>> \o A \o <<SP, SP>> \o B \o <<SP>> }

\* The line of n tokens `a`.
ManyTokens(n) == Join([i \in 1..n |-> A])

\* The command lines typed under SpecParse: every non-empty line of up to
\* MaxLineLen characters out of space, `a` and `&`, a line of ordinary
\* words, and lines of about TOKEN_BUFSIZE tokens.
ParseLines ==
    UNION {[1..k -> {SP, "a", "&"}] : k \in 1..MaxLineLen}
        \cup {Join(<<LS, DASHL, HOME>>)}
        \cup {ManyTokens(n) :
                 n \in (TOKEN_BUFSIZE - 2)..(TOKEN_BUFSIZE - 1 + MaxExtraTokens)}

\* The command lines typed under SpecEof.
EofLines == { <<>>, Join(<<A>>), Join(<<A, AMP>>), Join(<<EXIT>>) }

\* What the buffer malloc returned may hold as a C string when fgets, at
\* end of file, has stored nothing in it: nothing (zeroed memory), or what
\* an earlier use of the memory left there.
Uninitialised == { <<>>, Join(<<A>>), Join(<<EXIT>>) }

\* The command lines typed under SpecHistory and SpecScript.
HistLines == { Join(<<A>>), Join(<<HISTORY>>) }
ScriptLines == { Join(<<A>>), Join(<<B>>), Join(<<C>>), Join(<<HISTORY>>) }

\* ------------------------------------------------------------------------
\* String functions of the C library, as the code uses them
\* ------------------------------------------------------------------------
\* The number of elements of s before position stop, the least of stops,
\* or all of them if stops is empty.
Before(s, stops) ==
    IF stops = {} THEN Len(s)
    ELSE (CHOOSE i \in stops : \A j \in stops : i <= j) - 1

\* Length of the longest prefix of s holding no character of reject.
strcspn(s, reject) == Before(s, {i \in 1..Len(s) : s[i] \in reject})

\* Length of the longest prefix of s made of characters of accept.
strspn(s, accept) == Before(s, {i \in 1..Len(s) : s[i] \notin accept})

\* From position i (1-based): the rest of s.
From(s, i) == SubSeq(s, i, Len(s))

RECURSIVE strtok(_, _)
\* The tokens strtok returns, one call after the other, scanning s from
\* position i with the delimiter " ".
strtok(s, i) ==
    LET b == i + strspn(From(s, i), {SP})
    IN  IF b > Len(s) THEN <<>>
        ELSE LET n == strcspn(From(s, b), {SP})
             IN  <<SubSeq(s, b, b + n - 1)>> \o strtok(s, b + n + 1)

\* fgets(input, BUFFER_SIZE, stdin): what it stores of the characters raw
\* waiting on stdin, a line through its newline but at most
\* BUFFER_SIZE - 1 characters.
fgets(raw) ==
    LET n == strcspn(raw, {NL})
        m == IF n < Len(raw) THEN n + 1 ELSE n
    IN  SubSeq(raw, 1, IF m < BUFFER_SIZE - 1 THEN m ELSE BUFFER_SIZE - 1)

\* read_input: the line fgets delivers, cut at its newline.
read_input(raw) == SubSeq(fgets(raw), 1, strcspn(fgets(raw), {NL}))

RECURSIVE strtok_buffer(_, _)
\* The line buffer after the strtok calls of parse_input, scanning from
\* position i: strtok writes a NUL over the delimiter that ends a token.
strtok_buffer(s, i) ==
    LET b == i + strspn(From(s, i), {SP})
    IN  IF b > Len(s) THEN s
        ELSE LET e == b + strcspn(From(s, b), {SP})
             IN  IF e > Len(s) THEN s
                 ELSE strtok_buffer([s EXCEPT ![e] = NUL], e + 1)

\* parse_input splitting at every single space, empty tokens included.
parse_input_every_space(input) ==
    LET cuts == {0} \cup {i \in 1..Len(input) : input[i] = SP}
                    \cup {Len(input) + 1}
        Nth(k) == CHOOSE c \in cuts : Cardinality({d \in cuts : d < c}) = k
    IN  [k \in 1..(Cardinality(cuts) - 1) |->
            SubSeq(input, Nth(k - 1) + 1, Nth(k) - 1)] \o <<NULL>>

\* parse_input: the tokens of the line, then the NULL terminator.
parse_input(input) == strtok(input, 1) \o <<NULL>>

\* Number of slots of args before the first NULL.
RECURSIVE ArgCount(_)
ArgCount(args) ==
    IF args = <<>> \/ args[1] = NULL THEN 0
    ELSE 1 + ArgCount(Tail(args))

\* The argument vector a callee sees: the slots before the first NULL.
Argv(args) == SubSeq(args, 1, ArgCount(args))

\* ------------------------------------------------------------------------
\* History ring
\* ------------------------------------------------------------------------
\* add_to_history without the shift of the full array: the new command
\* overwrites the newest entry.
add_to_history_noshift(hist, command) ==
    IF Len(hist) < HISTORY_SIZE
    THEN Append(hist, command)
    ELSE [hist EXCEPT ![HISTORY_SIZE] = command]

\* add_to_history storing the pointer it is given in place of a strdup
\* copy: the entry is the line buffer, which strtok then cuts at the end
\* of the first token.
add_to_history_no_copy(hist, command) ==
    LET b == strtok_buffer(command, 1)
        e == SubSeq(b, 1, strcspn(b, {NUL}))
    IN  IF Len(hist) < HISTORY_SIZE THEN Append(hist, e)
        ELSE Append(Tail(hist), e)

\* add_to_history: the new contents of the history array.
add_to_history(hist, command) ==
    IF Len(hist) < HISTORY_SIZE
    THEN Append(hist, command)
    ELSE [i \in 1..HISTORY_SIZE |->
            IF i < HISTORY_SIZE THEN hist[i + 1] ELSE command]

\* print_history printing the array index i instead of i + 1.
print_history_zero_based(hist) == [i \in 1..Len(hist) |-> <<i - 1, hist[i]>>]

\* print_history: the lines written to standard output, each the pair of
\* the printed index and the printed text.
print_history(hist) == [i \in 1..Len(hist) |-> <<i, hist[i]>>]

\* ------------------------------------------------------------------------
\* Builtins and the pieces of execute
\* ------------------------------------------------------------------------
\* The directory chdir(path) leads to from cwd.
Resolve(dir, path) ==
    IF path[1] = "/" THEN path
    ELSE IF dir = <<"/">> THEN dir \o path
    ELSE dir \o <<"/">> \o path

\* cd handing chdir the command name args[0] instead of args[1].
cd_uses_command_name(args, dir, ok) ==
    IF args[2] = NULL
    THEN [cwd |-> dir, err |-> <<"usage">>]
    ELSE IF ok
         THEN [cwd |-> Resolve(dir, args[1]), err |-> <<>>]
         ELSE [cwd |-> dir, err |-> <<"perror">>]

\* cd refusing a second argument with the usage diagnostic.
cd_rejects_extra(args, dir, ok) ==
    IF args[2] = NULL \/ args[3] # NULL
    THEN [cwd |-> dir, err |-> <<"usage">>]
    ELSE IF ok
         THEN [cwd |-> Resolve(dir, args[2]), err |-> <<>>]
         ELSE [cwd |-> dir, err |-> <<"perror">>]

\* cd: the working directory and the diagnostics after cd(args), where ok
\* tells whether chdir succeeds.
cd(args, dir, ok) ==
    IF args[2] = NULL
    THEN [cwd |-> dir, err |-> <<"usage">>]
    ELSE IF ok
         THEN [cwd |-> Resolve(dir, args[2]), err |-> <<>>]
         ELSE [cwd |-> dir, err |-> <<"perror">>]

\* check_background taking the first `&` it meets, wherever it stands.
check_background_any_amp(args) ==
    LET hits == {i \in 1..ArgCount(args) : args[i] = AMP}
    IN  IF hits # {}
        THEN [args |-> [args EXCEPT ![CHOOSE i \in hits :
                                         \A j \in hits : i <= j] = NULL],
              background |-> TRUE]
        ELSE [args |-> args, background |-> FALSE]

\* check_background reporting the trailing `&` without removing it.
check_background_keeps_amp(args) ==
    LET i == ArgCount(args)
    IN  [args |-> args, background |-> i > 0 /\ args[i] = AMP]

\* check_background: the args array afterwards and the value returned.
check_background(args) ==
    LET i == ArgCount(args)
    IN  IF i > 0 /\ args[i] = AMP
        THEN [args |-> [args EXCEPT ![i] = NULL], background |-> TRUE]
        ELSE [args |-> args, background |-> FALSE]

\* A standard stream as the interpreter inherits it, and as open and dup2
\* rebind it.
TTY == [path |-> NULL, mode |-> "tty"]
Bound(path, mode) == [path |-> path, mode |-> mode]

\* The flags of the open call made for a redirection operator.
OpenMode(op) ==
    IF op = GT THEN "trunc" ELSE IF op = GTGT THEN "append" ELSE "rdonly"

\* The stream a redirection operator rebinds.
OpenStream(op) == IF op = LT THEN "in" ELSE "out"

RECURSIVE handle_redirection_nulls_target(_, _, _, _, _)
\* handle_redirection writing its NULL over the target, args[i + 1],
\* instead of over the operator.
handle_redirection_nulls_target(args, i, streams, opened, failAt) ==
    IF args[i] = NULL
    THEN [args |-> args, fds |-> streams, opened |-> opened, exited |-> FALSE]
    ELSE IF args[i] \in {GT, GTGT, LT}
    THEN IF i = failAt \/ args[i + 1] = NULL
         THEN [args |-> args, fds |-> streams, opened |-> opened,
               exited |-> TRUE]
         ELSE LET b == Bound(args[i + 1], OpenMode(args[i]))
              IN  handle_redirection_nulls_target(
                      [args EXCEPT ![i + 1] = NULL], i + 1,
                      [streams EXCEPT ![OpenStream(args[i])] = b],
                      Append(opened, b), failAt)
    ELSE handle_redirection_nulls_target(args, i + 1, streams, opened, failAt)

RECURSIVE handle_redirection_first_wins(_, _, _, _, _)
\* handle_redirection leaving a stream alone once it has been rebound.
handle_redirection_first_wins(args, i, streams, opened, failAt) ==
    IF args[i] = NULL
    THEN [args |-> args, fds |-> streams, opened |-> opened, exited |-> FALSE]
    ELSE IF args[i] \in {GT, GTGT, LT}
    THEN IF i = failAt \/ args[i + 1] = NULL
         THEN [args |-> args, fds |-> streams, opened |-> opened,
               exited |-> TRUE]
         ELSE LET b == Bound(args[i + 1], OpenMode(args[i]))
                  t == OpenStream(args[i])
              IN  handle_redirection_first_wins(
                      [args EXCEPT ![i] = NULL], i + 1,
                      IF streams[t] = TTY THEN [streams EXCEPT ![t] = b]
                      ELSE streams,
                      Append(opened, b), failAt)
    ELSE handle_redirection_first_wins(args, i + 1, streams, opened, failAt)

RECURSIVE handle_redirection(_, _, _, _, _)
\* handle_redirection from slot i on: failAt is the slot of the operator
\* whose open fails (0: none; an open of the NULL pointer always fails).
\* Yields the args array, the stream bindings, the targets opened in scan
\* order, and whether the process called exit(EXIT_FAILURE).
handle_redirection(args, i, streams, opened, failAt) ==
    IF args[i] = NULL
    THEN [args |-> args, fds |-> streams, opened |-> opened, exited |-> FALSE]
    ELSE IF args[i] \in {GT, GTGT, LT}
    THEN IF i = failAt \/ args[i + 1] = NULL
         THEN [args |-> args, fds |-> streams, opened |-> opened,
               exited |-> TRUE]
         ELSE LET b == Bound(args[i + 1], OpenMode(args[i]))
              IN  handle_redirection(
                      [args EXCEPT ![i] = NULL], i + 1,
                      [streams EXCEPT ![OpenStream(args[i])] = b],
                      Append(opened, b), failAt)
    ELSE handle_redirection(args, i + 1, streams, opened, failAt)

\* execute never waiting, and execute always waiting.
AfterFork_never_waits(background) == "read"
AfterFork_always_waits(background) == "wait"

\* The position of the parent after a successful fork: in waitpid for a
\* foreground command, back at the top of the loop for a background one.
AfterFork(background) == IF background THEN "read" ELSE "wait"

\* execute calling handle_redirection before the fork, in the interpreter.
StreamsAfterExecute_in_parent(streams, args) ==
    handle_redirection(args, 1, streams, <<>>, 0).fds

\* The interpreter's own standard streams after execute(args, background):
\* handle_redirection runs in the child only, so they are as before.
StreamsAfterExecute(streams, args) == streams

\* The child process as fork creates it: a copy of the interpreter's args
\* (kept as they are at the fork) and of its standard streams.
NewChild(args, background, streams) ==
    [args |-> args, bg |-> background, st |-> "forked", fds |-> streams,
     opened |-> <<>>, argv |-> <<>>, status |-> "none"]

\* ------------------------------------------------------------------------
\* State
\* ------------------------------------------------------------------------
VARIABLES
    history,     \* the history array, history_count being its length
    cwd,         \* the interpreter's working directory
    fds,         \* the interpreter's standard input and output
    pc,          \* where the interpreter is: "read", "wait", "exited",
                 \* "failed" (exit(EXIT_FAILURE)), "crashed"
    fgPid,       \* the pid waitpid waits for (0: none)
    children,    \* the child processes not reaped, by pid
    nextPid,     \* the pid the next fork returns
    prompt,      \* the directory shown by the last prompt
    out,         \* what the interpreter wrote to stdout in this iteration
    err,         \* what the interpreter wrote to stderr in this iteration
    liveInputs,  \* line buffers of read_input not yet freed
    entered,     \* the command lines read_input has returned so far
    input,       \* main's input: the contents of the current line buffer
    args,        \* main's args: the slots parse_input wrote, as they are now
    background,  \* main's background
    eof          \* stdin is at end of file

vars == <<history, cwd, fds, pc, fgPid, children, nextPid, prompt, out, err,
          liveInputs, entered, input, args, background, eof>>

ROOT == <<"/">>

Init ==
    /\ history = <<>>
    /\ cwd = ROOT
    /\ fds = [in |-> TTY, out |-> TTY]
    /\ pc = "read"
    /\ fgPid = 0
    /\ children = <<>>
    /\ nextPid = 1
    /\ prompt = ROOT
    /\ out = <<>>
    /\ err = <<>>
    /\ liveInputs = 0
    /\ entered = <<>>
    /\ input = <<>>
    /\ args = <<>>
    /\ background = FALSE
    /\ eof = FALSE

\* ------------------------------------------------------------------------
\* The command loop of main, one action per path through its body
\* ------------------------------------------------------------------------
\* The line read_input returns for the typed line l.
LineOf(l) == read_input(Typed(l))

\* The args array parse_input builds for the typed line l.
ArgsOf(l) == parse_input(LineOf(l))

\* main's input and args once parse_input has run on the typed line l.
Parsed(l) ==
    /\ input' = strtok_buffer(LineOf(l), 1)
    /\ args' = ArgsOf(l)

\* The end of an iteration that reaches the bottom of the loop body:
\* free(input), free(args), then the prompt of the next iteration.
EndIteration(dir) ==
    /\ liveInputs' = liveInputs
    /\ prompt' = dir

\* read_input cannot allocate the line buffer: exit(EXIT_FAILURE).
AllocFail ==
    /\ pc = "read"
    /\ pc' = "failed"
    /\ err' = <<"allocation error">>
    /\ out' = <<>>
    /\ UNCHANGED <<history, cwd, fds, fgPid, children, nextPid, prompt,
                   liveInputs, entered, input, args, background, eof>>

\* The input source is exhausted: from now on fgets returns NULL.
EndOfInput ==
    /\ ~eof
    /\ eof' = TRUE
    /\ UNCHANGED <<history, cwd, fds, pc, fgPid, children, nextPid, prompt,
                   out, err, liveInputs, entered, input, args, background>>

\* At end of file strcspn scans a buffer nothing was stored in; this is
\* the outcome where it runs off the buffer and faults.  The outcomes
\* where the buffer holds a string are the other actions of the loop.
ReadEofFault ==
    /\ pc = "read"
    /\ eof
    /\ pc' = "crashed"
    /\ liveInputs' = liveInputs + 1
    /\ out' = <<>>
    /\ err' = <<>>
    /\ UNCHANGED <<history, cwd, fds, fgPid, children, nextPid, prompt,
                   entered, input, args, background, eof>>

\* An empty line: continue, before the line is recorded or freed.
ReadEmpty(l) ==
    /\ pc = "read"
    /\ LineOf(l) = <<>>
    /\ entered' = Append(entered, LineOf(l))
    /\ liveInputs' = liveInputs + 1
    /\ prompt' = cwd
    /\ out' = <<>>
    /\ err' = <<>>
    /\ input' = LineOf(l)
    /\ UNCHANGED <<history, cwd, fds, pc, fgPid, children, nextPid, args,
                   background, eof>>

\* A line of spaces only: recorded, tokenized to an args array holding
\* just the terminator, and then strcmp(args[0], "exit") reads through the
\* NULL pointer.  This action is the outcome where that read faults; the
\* outcome where the three comparisons come out unequal is part of Launch.
BlankLineFault(l) ==
    /\ pc = "read"
    /\ LineOf(l) # <<>>
    /\ ArgsOf(l)[1] = NULL
    /\ entered' = Append(entered, LineOf(l))
    /\ history' = add_to_history(history, LineOf(l))
    /\ liveInputs' = liveInputs + 1
    /\ pc' = "crashed"
    /\ out' = <<>>
    /\ err' = <<>>
    /\ Parsed(l)
    /\ UNCHANGED <<cwd, fds, fgPid, children, nextPid, prompt, background,
                   eof>>

\* exit without the break: the iteration ends and the loop goes on.
ExitCmd_no_break(l) ==
    /\ pc = "read"
    /\ LineOf(l) # <<>>
    /\ ArgsOf(l)[1] = EXIT
    /\ entered' = Append(entered, LineOf(l))
    /\ history' = add_to_history(history, LineOf(l))
    /\ EndIteration(cwd)
    /\ out' = <<>>
    /\ err' = <<>>
    /\ Parsed(l)
    /\ UNCHANGED <<cwd, fds, pc, fgPid, children, nextPid, background, eof>>

\* exit: break out of the loop and return 0 (pc = "exited").
ExitCmd(l) ==
    /\ pc = "read"
    /\ LineOf(l) # <<>>
    /\ ArgsOf(l)[1] = EXIT
    /\ entered' = Append(entered, LineOf(l))
    /\ history' = add_to_history(history, LineOf(l))
    /\ liveInputs' = liveInputs + 1
    /\ pc' = "exited"
    /\ out' = <<>>
    /\ err' = <<>>
    /\ Parsed(l)
    /\ UNCHANGED <<cwd, fds, fgPid, children, nextPid, prompt, background,
                   eof>>

\* cd: the builtin runs in the interpreter itself.
CdCmd(l) ==
    /\ pc = "read"
    /\ LineOf(l) # <<>>
    /\ ArgsOf(l)[1] = CD
    /\ entered' = Append(entered, LineOf(l))
    /\ history' = add_to_history(history, LineOf(l))
    /\ \E ok \in BOOLEAN :
          LET r == cd(ArgsOf(l), cwd, ok)
          IN  /\ cwd' = r.cwd
              /\ err' = r.err
              /\ EndIteration(r.cwd)
    /\ out' = <<>>
    /\ Parsed(l)
    /\ UNCHANGED <<fds, pc, fgPid, children, nextPid, background, eof>>

\* history: print the ring, which already holds this very line.
HistoryCmd(l) ==
    /\ pc = "read"
    /\ LineOf(l) # <<>>
    /\ ArgsOf(l)[1] = HISTORY
    /\ entered' = Append(entered, LineOf(l))
    /\ history' = add_to_history(history, LineOf(l))
    /\ out' = print_history(history')
    /\ err' = <<>>
    /\ EndIteration(cwd)
    /\ Parsed(l)
    /\ UNCHANGED <<cwd, fds, pc, fgPid, children, nextPid, background, eof>>

\* Any other first token: check_background, then execute up to the point
\* where the parent waits (foreground) or has finished the iteration
\* (background, or fork failed).  A NULL first token gets here when the
\* comparisons of a blank line's args[0] come out unequal.
Launch(l) ==
    /\ pc = "read"
    /\ LineOf(l) # <<>>
    /\ ArgsOf(l)[1] \notin {EXIT, CD, HISTORY}
    /\ entered' = Append(entered, LineOf(l))
    /\ history' = add_to_history(history, LineOf(l))
    /\ LET r == check_background(ArgsOf(l))
       IN  /\ input' = strtok_buffer(LineOf(l), 1)
           /\ args' = r.args
           /\ background' = r.background
           /\ fds' = StreamsAfterExecute(fds, r.args)
           /\ \/ \* fork fails: perror, and the iteration ends
                 /\ err' = <<"perror">>
                 /\ out' = <<>>
                 /\ pc' = "read"
                 /\ EndIteration(cwd)
                 /\ UNCHANGED <<fgPid, children, nextPid>>
              \/ \* fork succeeds
                 /\ children' =
                       (nextPid :> NewChild(r.args, r.background, fds))
                           @@ children
                 /\ nextPid' = nextPid + 1
                 /\ pc' = AfterFork(r.background)
                 /\ fgPid' = IF r.background THEN 0 ELSE nextPid
                 /\ out' = IF r.background THEN <<<<"pid", nextPid>>>>
                           ELSE <<>>
                 /\ err' = <<>>
                 /\ IF r.background
                    THEN EndIteration(cwd)
                    ELSE liveInputs' = liveInputs + 1 /\ prompt' = prompt
    /\ UNCHANGED <<cwd, eof>>

\* A wait for any child in place of waitpid(pid, ...): it returns with
\* whichever child has terminated, and reaps it.
WaitReturn_reaps_any ==
    /\ pc = "wait"
    /\ \E q \in DOMAIN children :
          /\ children[q].st = "terminated"
          /\ children' = [p \in DOMAIN children \ {q} |-> children[p]]
    /\ fgPid' = 0
    /\ pc' = "read"
    /\ liveInputs' = liveInputs - 1
    /\ prompt' = cwd
    /\ UNCHANGED <<history, cwd, fds, nextPid, out, err, entered, input,
                   args, background, eof>>

\* waitpid returns: the foreground child has terminated and is reaped;
\* the iteration ends.
WaitReturn ==
    /\ pc = "wait"
    /\ fgPid \in DOMAIN children
    /\ children[fgPid].st = "terminated"
    /\ children' = [p \in DOMAIN children \ {fgPid} |-> children[p]]
    /\ fgPid' = 0
    /\ pc' = "read"
    /\ liveInputs' = liveInputs - 1
    /\ prompt' = cwd
    /\ UNCHANGED <<history, cwd, fds, nextPid, out, err, entered, input,
                   args, background, eof>>

\* ------------------------------------------------------------------------
\* The child process
\* ------------------------------------------------------------------------
\* The child's branch without the exit(EXIT_FAILURE) after execvp: when
\* execvp fails the child returns from execute into the command loop.
ChildAfterExec_falls_through(c, h, execOK, fault) ==
    IF h.exited
    THEN [c EXCEPT !.fds = h.fds, !.opened = h.opened,
                   !.st = "terminated", !.status = "failure"]
    ELSE IF h.args[1] # NULL /\ execOK
    THEN [c EXCEPT !.fds = h.fds, !.opened = h.opened,
                   !.st = "running", !.argv = Argv(h.args)]
    ELSE [c EXCEPT !.fds = h.fds, !.opened = h.opened, !.st = "read"]

\* The child after handle_redirection and execvp.  h is the result of
\* handle_redirection, execOK whether execvp installs the program, fault
\* whether execvp faults when handed a NULL file name.
ChildAfterExec(c, h, execOK, fault) ==
    IF h.exited
    THEN [c EXCEPT !.fds = h.fds, !.opened = h.opened,
                   !.st = "terminated", !.status = "failure"]
    ELSE IF h.args[1] = NULL
    THEN [c EXCEPT !.fds = h.fds, !.opened = h.opened,
                   !.st = "terminated",
                   !.status = IF fault THEN "killed" ELSE "failure"]
    ELSE IF execOK
    THEN [c EXCEPT !.fds = h.fds, !.opened = h.opened,
                   !.st = "running", !.argv = Argv(h.args)]
    ELSE [c EXCEPT !.fds = h.fds, !.opened = h.opened,
                   !.st = "terminated", !.status = "failure"]

\* The child's branch of execute: handle_redirection, execvp, and
\* exit(EXIT_FAILURE) when execvp returns.
ChildRun(p) ==
    /\ p \in DOMAIN children
    /\ children[p].st = "forked"
    /\ \E failAt \in 0..Len(children[p].args), execOK \in BOOLEAN,
          fault \in BOOLEAN :
          children' =
              [children EXCEPT ![p] =
                  ChildAfterExec(
                      children[p],
                      handle_redirection(children[p].args, 1,
                                         children[p].fds, <<>>, failAt),
                      execOK, fault)]
    /\ UNCHANGED <<history, cwd, fds, pc, fgPid, nextPid, prompt, out, err,
                   liveInputs, entered, input, args, background, eof>>

\* The external program ends, with a status of its own.
ChildTerminate(p) ==
    /\ p \in DOMAIN children
    /\ children[p].st = "running"
    /\ \E s \in {"success", "failure"} :
          children' = [children EXCEPT ![p].st = "terminated",
                                       ![p].status = s]
    /\ UNCHANGED <<history, cwd, fds, pc, fgPid, nextPid, prompt, out, err,
                   liveInputs, entered, input, args, background, eof>>

\* ------------------------------------------------------------------------
\* Specifications
\* ------------------------------------------------------------------------
\* The lines read_input may find in its buffer next, when at most max
\* lines are read in all: a line of the set L that the terminal delivers
\* or, at end of file, where fgets returns NULL unchecked and stores
\* nothing, whatever the buffer holds (which has no newline, so that
\* cutting it at the newline leaves it as it is).
Input(L, max) ==
    IF Len(entered) < max THEN (IF eof THEN Uninitialised ELSE L) ELSE {}

Next ==
    \/ Input(Lines, MaxCmds) # {} /\ AllocFail
    \/ \E l \in Input(Lines, MaxCmds) : ReadEmpty(l)
    \/ \E l \in Input(Lines, MaxCmds) : BlankLineFault(l)
    \/ \E l \in Input(Lines, MaxCmds) : ExitCmd(l)
    \/ \E l \in Input(Lines, MaxCmds) : CdCmd(l)
    \/ \E l \in Input(Lines, MaxCmds) : HistoryCmd(l)
    \/ \E l \in Input(Lines, MaxCmds) : Launch(l)
    \/ WaitReturn
    \/ \E p \in DOMAIN children : ChildRun(p)
    \/ \E p \in DOMAIN children : ChildTerminate(p)

Spec == Init /\ [][Next]_vars

\* The interpreter fed only the lines of HistLines.
NextHistory ==
    \/ \E l \in Input(HistLines, MaxHistCmds) : HistoryCmd(l)
    \/ \E l \in Input(HistLines, MaxHistCmds) : Launch(l)
    \/ WaitReturn
    \/ \E p \in DOMAIN children : ChildRun(p)
    \/ \E p \in DOMAIN children : ChildTerminate(p)

SpecHistory == Init /\ [][NextHistory]_vars

\* ------------------------------------------------------------------------
\* parse_input and check_background on their own
\* ------------------------------------------------------------------------
\* main at line 178, about to call parse_input on a non-empty line it has
\* just read and recorded.
InitParse ==
    /\ \E l \in ParseLines :
          /\ input = LineOf(l)
          /\ entered = <<LineOf(l)>>
          /\ history = add_to_history(<<>>, LineOf(l))
    /\ pc = "parse"
    /\ liveInputs = 1
    /\ cwd = ROOT
    /\ fds = [in |-> TTY, out |-> TTY]
    /\ fgPid = 0
    /\ children = <<>>
    /\ nextPid = 1
    /\ prompt = ROOT
    /\ out = <<>>
    /\ err = <<>>
    /\ args = <<>>
    /\ background = FALSE
    /\ eof = FALSE

\* parse_input(input).  When the tokens and the terminator take more than
\* TOKEN_BUFSIZE slots the last writes fall outside the malloc'ed array:
\* they may go unnoticed, or the process faults.
ParseInput ==
    /\ pc = "parse"
    /\ args' = parse_input(input)
    /\ input' = strtok_buffer(input, 1)
    /\ \/ pc' = "check"
       \/ Len(args') > TOKEN_BUFSIZE /\ pc' = "crashed"
    /\ UNCHANGED <<history, cwd, fds, fgPid, children, nextPid, prompt, out,
                   err, liveInputs, entered, background, eof>>

\* background = check_background(args).
CheckBackground ==
    /\ pc = "check"
    /\ args' = check_background(args).args
    /\ background' = check_background(args).background
    /\ pc' = "done"
    /\ UNCHANGED <<history, cwd, fds, fgPid, children, nextPid, prompt, out,
                   err, liveInputs, entered, input, eof>>

NextParse ==
    \/ ParseInput
    \/ CheckBackground

SpecParse == InitParse /\ [][NextParse]_vars

\* The interpreter on an input source that ends.
NextEof ==
    \/ EndOfInput
    \/ Input(EofLines, MaxEofCmds) # {} /\ ReadEofFault
    \/ \E l \in Input(EofLines, MaxEofCmds) : ReadEmpty(l)
    \/ \E l \in Input(EofLines, MaxEofCmds) : ExitCmd(l)
    \/ \E l \in Input(EofLines, MaxEofCmds) : Launch(l)
    \/ WaitReturn
    \/ \E p \in DOMAIN children : ChildRun(p)
    \/ \E p \in DOMAIN children : ChildTerminate(p)

SpecEof == Init /\ [][NextEof]_vars

\* The interpreter fed only the lines of ScriptLines.
NextScript ==
    \/ \E l \in Input(ScriptLines, MaxScriptCmds) : HistoryCmd(l)
    \/ \E l \in Input(ScriptLines, MaxScriptCmds) : Launch(l)
    \/ WaitReturn
    \/ \E p \in DOMAIN children : ChildRun(p)
    \/ \E p \in DOMAIN children : ChildTerminate(p)

SpecScript == Init /\ [][NextScript]_vars

\* ------------------------------------------------------------------------
\* Properties
\* ------------------------------------------------------------------------
Min(a, b) == IF a < b THEN a ELSE b

\* The last n elements of s.
LastN(s, n) == SubSeq(s, Len(s) - n + 1, Len(s))

IsNonEmpty(l) == l # <<>>

\* The non-empty command lines entered so far, in the order entered.
Recorded == SelectSeq(entered, IsNonEmpty)

\* C1: after K non-empty command lines the history holds exactly
\* min(K, 10) entries, the most recent min(K, 10) lines in the order
\* entered; from the 11th insertion on the oldest line is gone.
C1_HistoryHoldsMostRecent ==
    history = LastN(Recorded, Min(Len(Recorded), HISTORY_SIZE))

\* Eleven lines entered, the first two different: the ring has dropped
\* the first and starts with the second.
C1_Witness ==
    /\ Len(Recorded) = HISTORY_SIZE + 1
    /\ entered[1] # entered[2]
    /\ Len(history) = HISTORY_SIZE
    /\ history[1] = entered[2]

\* The lines a, b, c and history, entered in this order and nothing else.
ScriptABC == <<Join(<<A>>), Join(<<B>>), Join(<<C>>), Join(<<HISTORY>>)>>

\* C8 as stated: history entered after a, b, c prints exactly 1 a, 2 b,
\* 3 c.
C8_AsStated ==
    entered = ScriptABC => out = << <<1, A>>, <<2, B>>, <<3, C>> >>

\* C8 amended: history entered after a, b, c prints 1 a, 2 b, 3 c,
\* 4 history; in general the builtin prints every stored entry once, in
\* insertion order, with a 1-based index, its own line being the last.
C8_HistoryListsItself ==
    /\ entered = ScriptABC =>
          out = << <<1, A>>, <<2, B>>, <<3, C>>, <<4, HISTORY>> >>
    /\ (entered # <<>> /\ parse_input(entered[Len(entered)])[1] = HISTORY) =>
          LET n == Min(Len(Recorded), HISTORY_SIZE)
          IN  /\ Len(out) = n
              /\ \A i \in 1..n : out[i] = <<i, LastN(Recorded, n)[i]>>
              /\ out[n] = <<n, Join(<<HISTORY>>)>>

\* history has just been entered after a, b and c.
C8_Witness ==
    /\ entered = ScriptABC
    /\ Len(out) = 4

\* A step in which read_input returns a line, that line, and its tokens.
ReadStep == Len(entered') = Len(entered) + 1
NewLine == entered'[Len(entered')]
NewArgs == parse_input(NewLine)

\* C2 as stated: a line that is empty or made of spaces only tokenizes to
\* the empty argument vector, is not added to the history, and nothing is
\* dispatched: the loop goes on to the next iteration.
C2_AsStated ==
    [][(ReadStep /\ \A i \in 1..Len(NewLine) : NewLine[i] = SP) =>
          /\ NewArgs = <<NULL>>
          /\ history' = history
          /\ children' = children
          /\ pc' = "read"]_vars

\* The children running in the foreground that are not reaped.
Foreground == {p \in DOMAIN children : ~children[p].bg}

\* C3: at most one foreground child is outstanding, the interpreter sits
\* in waitpid for it as long as it exists, and no line is read meanwhile.
C3_OneForegroundChild ==
    /\ [](/\ Cardinality(Foreground) <= 1
          /\ \A p \in Foreground : pc = "wait" /\ fgPid = p)
    /\ [][ReadStep => Foreground = {}]_vars

\* The interpreter waits for a foreground child that is running while a
\* background child is running too.
C3_Witness ==
    /\ pc = "wait"
    /\ fgPid \in DOMAIN children
    /\ children[fgPid].st = "running"
    /\ \E p \in DOMAIN children : children[p].bg /\ children[p].st = "running"

\* The last token of the args array is `&`.
LastIsAmp(a) == ArgCount(a) > 0 /\ a[ArgCount(a)] = AMP

\* C4: when a command whose last token is `&` is launched, the interpreter
\* reports the child's pid and is back at the top of its loop, without
\* the child having terminated.
C4_BackgroundDoesNotWait ==
    [][(ReadStep /\ DOMAIN children' # DOMAIN children /\ LastIsAmp(NewArgs))
          => /\ pc' = "read"
             /\ out' = << <<"pid", nextPid>> >>
             /\ nextPid \in DOMAIN children'
             /\ children'[nextPid].bg
             /\ children'[nextPid].st = "forked"]_vars

\* A second line has been accepted while the background child of the
\* first is still running.
C4_Witness ==
    /\ Len(entered) = 2
    /\ LastIsAmp(parse_input(entered[1]))
    /\ 1 \in DOMAIN children
    /\ children[1].bg
    /\ children[1].st = "running"
    /\ pc = "read"

\* The standard streams as the interpreter got them.
Inherited == [in |-> TTY, out |-> TTY]

\* A step of a child process.
ChildStep ==
    \E p \in DOMAIN children :
        p \in DOMAIN children' /\ children'[p] # children[p]

\* C5: nothing a child does changes the interpreter: its streams stay as
\* inherited, a step of a child leaves history, working directory and
\* loop position alone, every child starts from the inherited streams and
\* a child's stream is only ever bound to a target of its own command.
C5_ParentUntouched ==
    /\ [](/\ fds = Inherited
          /\ \A p \in DOMAIN children :
                /\ children[p].st = "forked" => children[p].fds = Inherited
                /\ \A s \in {"in", "out"} :
                      \/ children[p].fds[s] = TTY
                      \/ \E i \in 1..Len(children[p].opened) :
                            /\ children[p].opened[i] = children[p].fds[s]
                            /\ \E j \in 2..Len(children[p].args) :
                                  children[p].args[j] = children[p].fds[s].path)
    /\ [][ChildStep =>
            UNCHANGED <<history, cwd, fds, pc, fgPid, prompt, entered>>]_vars

\* A child with redirected output, one whose redirection or execvp failed
\* in some earlier or later command, and the interpreter still reading.
C5_Witness ==
    /\ pc = "read"
    /\ \E p, q \in DOMAIN children :
          /\ p < q
          /\ children[p].fds.out # TTY
          /\ children[p].status = "failure"
          /\ children[q].st = "running"
          /\ children[q].fds = Inherited

\* The redirection operators.
Ops == {GT, GTGT, LT}

\* The children whose execvp has installed a program.
Executed == {p \in DOMAIN children : children[p].argv # <<>>}

\* C6: the argv handed to execvp holds no redirection operator and no
\* redirection target: each of its elements is a token of the line that
\* neither is an operator nor follows one; `echo hi > out.txt` runs with
\* argv [echo, hi] and standard output bound to out.txt, opened
\* create+truncate.
C6_ArgvHasNoRedirection ==
    \A p \in Executed :
        LET c == children[p]
            n == Len(c.argv)
        IN  /\ c.argv = SubSeq(c.args, 1, n)
            /\ \A i \in 1..n :
                  /\ c.args[i] \notin Ops
                  /\ i > 1 => c.args[i - 1] \notin Ops
            /\ c.args = parse_input(Join(<<ECHO, HI, GT, OUTTXT>>)) =>
                  /\ c.argv = <<ECHO, HI>>
                  /\ c.fds = [in |-> TTY, out |-> Bound(OUTTXT, "trunc")]

\* `echo hi > out.txt` is running.
C6_Witness ==
    \E p \in Executed :
        /\ children[p].args = parse_input(Join(<<ECHO, HI, GT, OUTTXT>>))
        /\ children[p].st = "running"
        /\ children[p].fds.out.path = OUTTXT

RECURSIVE Surviving(_)
\* The tokens that are neither a redirection operator nor the target
\* following one, in their order.
Surviving(toks) ==
    IF toks = <<>> THEN <<>>
    ELSE IF toks[1] \in Ops THEN Surviving(SubSeq(toks, 3, Len(toks)))
    ELSE <<toks[1]>> \o Surviving(Tail(toks))

\* C7 as stated: the argv handed to execvp holds every token that is
\* neither an operator nor a target (nor the trailing `&`), in order,
\* those after a redirection pair included.
C7_AsStated ==
    \A p \in Executed : children[p].argv = Surviving(Argv(children[p].args))

\* C9: a cd line without argument writes the usage diagnostic and leaves
\* the working directory; with an argument the directory is the requested
\* one if chdir succeeds and otherwise unchanged, with the system's
\* diagnostic; the loop continues with the prompt of that directory, and
\* no other step changes the working directory.
C9_CdChangesDirectoryOnSuccess ==
    [][/\ (ReadStep /\ NewArgs[1] = CD) =>
             /\ pc' = "read"
             /\ prompt' = cwd'
             /\ IF NewArgs[2] = NULL
                THEN cwd' = cwd /\ err' = <<"usage">>
                ELSE \/ cwd' = Resolve(cwd, NewArgs[2]) /\ err' = <<>>
                     \/ cwd' = cwd /\ err' = <<"perror">>
       /\ ~(ReadStep /\ NewArgs[1] = CD) => cwd' = cwd]_vars

\* After a successful `cd dir` a later line has been read, and the prompt
\* shows the new directory.
C9_Witness ==
    /\ Len(entered) = 2
    /\ entered[1] = Join(<<CD, DIR>>)
    /\ parse_input(entered[2])[1] # CD
    /\ cwd = Resolve(ROOT, DIR)
    /\ prompt = cwd
    /\ pc = "read"

\* C10 as stated: a cd line with no argument or with more than one
\* argument writes the usage diagnostic and leaves the working directory.
C10_AsStated ==
    [][(ReadStep /\ NewArgs[1] = CD /\ ArgCount(NewArgs) # 2) =>
          err' = <<"usage">> /\ cwd' = cwd]_vars

\* C10 amended: a cd line with no argument writes the usage diagnostic
\* and leaves the working directory; with more than one argument there is
\* no usage diagnostic: the first argument is handed to chdir and the
\* others are ignored.
C10_ExtraArgumentsIgnored ==
    [][(ReadStep /\ NewArgs[1] = CD) =>
          /\ ArgCount(NewArgs) = 1 => err' = <<"usage">> /\ cwd' = cwd
          /\ ArgCount(NewArgs) > 2 =>
                \/ cwd' = Resolve(cwd, NewArgs[2]) /\ err' = <<>>
                \/ cwd' = cwd /\ err' = <<"perror">>]_vars

\* `cd dir sub` has changed the working directory to dir.
C10_Witness ==
    /\ entered # <<>>
    /\ entered[Len(entered)] = Join(<<CD, DIR, SUB>>)
    /\ cwd = Resolve(ROOT, DIR)
    /\ err = <<>>

\* C11 as stated: once the input source is exhausted the interpreter acts
\* as if exit had been entered: the iteration that reads at end of file
\* ends the loop.
C11_AsStated ==
    [][(eof /\ ReadStep) => pc' = "exited"]_vars

\* C12: a line whose first token is exit ends the loop in that iteration
\* with main returning 0, without background detection, redirection or a
\* fork; after it no line is read and nothing is recorded or launched.
C12_ExitEndsTheLoop ==
    /\ [][(ReadStep /\ NewArgs[1] = EXIT) =>
            /\ pc' = "exited"
            /\ args' = NewArgs
            /\ UNCHANGED <<children, nextPid, fds, background, cwd>>]_vars
    /\ [][pc = "exited" =>
            /\ pc' = "exited"
            /\ UNCHANGED <<entered, history, cwd, fds, nextPid, out, err>>]_vars

\* `exit > log &` was entered second: the loop has ended, only the first
\* line's child was ever created, and no stream was rebound.
C12_Witness ==
    /\ pc = "exited"
    /\ Len(entered) = 2
    /\ entered[2] = Join(<<EXIT, GT, LOG, AMP>>)
    /\ parse_input(entered[1])[1] = A
    /\ nextPid = 2
    /\ args = <<EXIT, GT, LOG, AMP, NULL>>

\* The k-th smallest element of the set S of numbers.
Kth(S, k) == CHOOSE x \in S : Cardinality({y \in S : y < x}) = k - 1

\* The maximal runs of non-space characters of s, left to right.
Runs(s) ==
    LET starts == {i \in 1..Len(s) : s[i] # SP /\ (i = 1 \/ s[i - 1] = SP)}
        ends == {i \in 1..Len(s) :
                    s[i] # SP /\ (i = Len(s) \/ s[i + 1] = SP)}
    IN  [k \in 1..Cardinality(starts) |->
            SubSeq(s, Kth(starts, k), Kth(ends, k))]

\* C13: check_background looks at the last element only: if it is `&` it
\* is removed and the result is true; otherwise the result is false and
\* the vector is as before, an `&` elsewhere included.
C13_OnlyTrailingAmp ==
    [][(pc = "check" /\ pc' = "done") =>
          LET n == Len(args) - 1
          IN  IF n > 0 /\ args[n] = AMP
              THEN /\ background'
                   /\ Argv(args') = SubSeq(args, 1, n - 1)
                   /\ args' = [args EXCEPT ![n] = NULL]
              ELSE /\ ~background'
                   /\ args' = args]_vars

\* check_background has run on `& a`, found no trailing `&` and left the
\* leading one in place.
C13_Witness ==
    /\ pc = "done"
    /\ ~background
    /\ args = <<AMP, A, NULL>>

\* C14: where parse_input returns, the args array holds the maximal runs
\* of non-space characters of the line, left to right, each non-empty,
\* then the terminator; `ls -l /home` gives [ls, -l, /home].
C14_TokensAreMaximalRuns ==
    pc = "check" =>
        /\ args = Runs(entered[1]) \o <<NULL>>
        /\ \A i \in 1..(Len(args) - 1) :
              args[i] # <<>> /\ \A j \in 1..Len(args[i]) : args[i][j] # SP
        /\ entered[1] = Join(<<LS, DASHL, HOME>>) =>
              Argv(args) = <<LS, DASHL, HOME>>

\* A line with leading, repeated and trailing spaces has been tokenized.
C14_Witness ==
    /\ pc = "check"
    /\ entered[1] = <<SP, "a", SP, SP>>
    /\ args = <<A, NULL>>

\* C15 as stated: for every line read_input can deliver, parse_input
\* stores all tokens and the terminator within the TOKEN_BUFSIZE slots it
\* allocated.
C15_AsStated ==
    pc # "parse" =>
        /\ Len(entered[1]) <= BUFFER_SIZE - 1
        /\ Len(args) <= TOKEN_BUFSIZE
        /\ pc # "crashed"

\* C16: a child is never in the command loop: it is about to run its
\* branch of execute, has become the external program, or has terminated,
\* and one that terminated without becoming the program did so with a
\* failure (exit(EXIT_FAILURE), or the fault of execvp on a NULL name).
C16_ChildNeverReturnsToLoop ==
    \A p \in DOMAIN children :
        LET c == children[p]
        IN  /\ c.st \in {"forked", "running", "terminated"}
            /\ c.st = "forked" => c.argv = <<>> /\ c.status = "none"
            /\ c.st = "running" => c.argv # <<>> /\ c.status = "none"
            /\ (c.st = "terminated" /\ c.argv = <<>>) =>
                  c.status \in {"failure", "killed"}

\* One child whose redirection target could not be opened, one that is
\* the external program, while the interpreter reads.
C16_Witness ==
    /\ pc = "read"
    /\ \E p, q \in DOMAIN children :
          /\ children[p].st = "terminated"
          /\ children[p].status = "failure"
          /\ children[p].opened = <<>>
          /\ \E i \in 1..Len(children[p].args) : children[p].args[i] \in Ops
          /\ children[q].st = "running"

\* The slots of the args array a that hold a redirection operator, and
\* those among them that rebind the stream t.
OpSlots(a) == {i \in 1..Len(a) : a[i] \in Ops}
OpSlotsOf(a, t) == {i \in OpSlots(a) : (a[i] = LT) <=> (t = "in")}

\* C17: when the program starts, every redirection of the line has been
\* opened, in left-to-right order, and each standard stream is bound to
\* the target of the last redirection for it, or is as inherited if there
\* is none; `a > out.txt > log` runs with standard output bound to log.
C17_LastRedirectionWins ==
    \A p \in Executed :
        LET c == children[p]
            n == Cardinality(OpSlots(c.args))
        IN  /\ Len(c.opened) = n
            /\ \A k \in 1..n :
                  c.opened[k] =
                      Bound(c.args[Kth(OpSlots(c.args), k) + 1],
                            OpenMode(c.args[Kth(OpSlots(c.args), k)]))
            /\ \A t \in {"in", "out"} :
                  LET m == Cardinality(OpSlotsOf(c.args, t))
                  IN  IF m = 0 THEN c.fds[t] = TTY
                      ELSE c.fds[t].path =
                               c.args[Kth(OpSlotsOf(c.args, t), m) + 1]
            /\ c.args = parse_input(Join(<<A, GT, OUTTXT, GT, LOG>>)) =>
                  c.fds.out = Bound(LOG, "trunc")

\* `a > out.txt > log` is running.
C17_Witness ==
    \E p \in Executed :
        /\ children[p].args = parse_input(Join(<<A, GT, OUTTXT, GT, LOG>>))
        /\ children[p].st = "running"
        /\ Len(children[p].opened) = 2

\* C18: the child is created with the args array check_background left,
\* the trailing `&` already removed, before any redirection is handled
\* and before execvp; so no background child ever opens `&` as a target,
\* and every target opened is a slot of that array.
C18_BackgroundThenRedirection ==
    /\ [][(ReadStep /\ DOMAIN children' # DOMAIN children) =>
            LET c == children'[nextPid]
                n == Len(NewArgs) - 1
            IN  /\ c.st = "forked" /\ c.opened = <<>> /\ c.argv = <<>>
                /\ IF n > 0 /\ NewArgs[n] = AMP
                   THEN c.bg /\ c.args = [NewArgs EXCEPT ![n] = NULL]
                   ELSE ~c.bg /\ c.args = NewArgs]_vars
    /\ [](\A p \in DOMAIN children :
            \A k \in 1..Len(children[p].opened) :
                /\ children[p].bg => children[p].opened[k].path # AMP
                /\ \E i \in OpSlots(children[p].args) :
                      children[p].args[i + 1] = children[p].opened[k].path)

\* The child of `a > &` has given up on its redirection, whose target is
\* the NULL that replaced the `&`, without opening anything.
C18_Witness ==
    \E p \in DOMAIN children :
        /\ children[p].bg
        /\ children[p].args = <<A, GT, NULL, NULL>>
        /\ children[p].st = "terminated"
        /\ children[p].opened = <<>>

\* C19: a background child is never reaped: no step removes it from the
\* children, and the only child a step removes is the foreground child
\* the interpreter is waiting for.
C19_BackgroundNeverReaped ==
    [][/\ \A p \in DOMAIN children :
             children[p].bg => p \in DOMAIN children'
       /\ \A p \in DOMAIN children \ DOMAIN children' :
             pc = "wait" /\ p = fgPid /\ children[p].st = "terminated"]_vars

\* The background child of the first line has terminated and is still
\* there after the foreground child of the second line has been reaped.
C19_Witness ==
    /\ pc = "read"
    /\ nextPid = 3
    /\ DOMAIN children = {1}
    /\ children[1].bg
    /\ children[1].st = "terminated"

\* C20 as stated: at the start of each iteration no line buffer of an
\* earlier iteration is still allocated.
C20_AsStated == pc = "read" => liveInputs = 0

\* The operator tokens of the command language.
OperatorTokens == {LT, GT, GTGT, AMP}

\* C21 as stated: the args array handed to execute never starts with an
\* operator token, and the name a running program was started under is a
\* token that is not an operator.
C21_AsStated ==
    \A p \in DOMAIN children :
        /\ children[p].args[1] \notin OperatorTokens
        /\ children[p].st = "running" =>
              children[p].argv[1] \notin OperatorTokens \cup {NULL}

\* C22: every history entry is the full text of a line as entered, the
\* most recent lines in order, with none of the NULs strtok writes; the
\* history changes only when a line is read, by add_to_history of that
\* line; and the listing `history` prints shows those full texts.
C22_HistoryKeepsOriginalText ==
    /\ [](\A i \in 1..Len(history) :
            /\ history[i] = LastN(Recorded, Len(history))[i]
            /\ \A k \in 1..Len(history[i]) : history[i][k] # NUL)
    /\ [][history' # history =>
            ReadStep /\ history' = add_to_history(history, NewLine)]_vars
    /\ [][(ReadStep /\ NewArgs[1] = HISTORY) =>
            out' = [i \in 1..Len(history') |->
                       <<i, LastN(Recorded', Len(history'))[i]>>]]_vars

\* `a > log &` has been launched in the background, its args array cut
\* by strtok, check_background and handle_redirection, and `history`
\* then lists the line in full.
C22_Witness ==
    /\ out = << <<1, Join(<<A, GT, LOG, AMP>>)>>, <<2, Join(<<HISTORY>>)>> >>
    /\ 1 \in DOMAIN children
    /\ children[1].bg
    /\ children[1].st = "running"
    /\ children[1].args[4] = NULL
    /\ children[1].argv = <<A>>
    /\ children[1].fds.out = Bound(LOG, "trunc")

====
